---- MODULE Spec2Model ----
(***************************************************************************)
(* Model of RAG-and-embeddings-solution.ipynb: retrieve_texts and          *)
(* answer_query, with the embedding model, the FAISS index and the Groq    *)
(* chat-completion endpoint as external collaborators whose replies are    *)
(* nondeterministic.                                                       *)
(*                                                                         *)
(* A string is a sequence of atoms: a chunk or a query is a sequence of    *)
(* one-character atoms, a literal run of the prompt template is one atom.  *)
(* Positions are 0-based as in Python; sequences are 1-based as in TLA+.   *)
(***************************************************************************)
EXTENDS Integers, Sequences, FiniteSets

\* ---- bounds ----
MaxChunks == 2
MaxVectors == 3
MaxK == 3
MaxDist == 1
MaxChoices == 2
MaxCalls == 2

\* ---- values of the external world ----
None == "None"
NL == "\n"
Letters == <<"a", "b", "c", "d", "e">>
\* the i-th (0-based) chunk of the pickled chunk collection
ChunkAt(i) == <<Letters[(i % 5) + 1]>> \o (IF i % 2 = 1 THEN <<NL, "z">> ELSE <<>>)
Queries == {<<"q">>, <<"w", "?">>}
Contents == {<<"y">>, <<>>}
Range(s) == {s[i] : i \in DOMAIN s}
SeqsUpTo(S, n) == UNION {[1..m -> S] : m \in 0..n}
Min(a, b) == IF a < b THEN a ELSE b

VARIABLES
  token_split_texts, \* the chunk collection loaded from chunks_mapping.pkl
  index,             \* the FAISS index loaded from faiss_index.index
  pc,                \* position of the running call
  op,                \* which function the caller invoked
  ncalls,            \* calls started so far
  query, k,          \* arguments of the running call
  query_embedding,   \* model.encode([query])
  distances, indices,\* index.search(query_embedding, k): two 1 x k arrays
  valid_indices, retrieved_texts,
  ret,               \* value returned by retrieve_texts
  context, prompt,
  request,           \* keyword arguments of client.chat.completions.create
  llm,               \* the response: its list of choices
  answer,            \* value returned by answer_query
  fault,             \* exception propagating to the caller
  trace              \* external calls and steps of the running call, in order

vars == <<token_split_texts, index, pc, op, ncalls, query, k, query_embedding,
          distances, indices, valid_indices, retrieved_texts, ret, context,
          prompt, request, llm, answer, fault, trace>>

\* ---- the loaded objects (cell 3) ----
LoadedTexts == {[i \in 1..m |-> ChunkAt(i - 1)] : m \in 0..MaxChunks}
\* a flat index: ntotal vectors labelled 0..ntotal-1
LoadedIndexes == {[ntotal |-> n] : n \in 0..MaxVectors}

\* ---- faiss: index.search ----
\* label and distance of a result slot with no hit
NoHit == 0 - 1
NoHitDist == MaxDist + 1
IsInjective(f) == \A a, b \in DOMAIN f : f[a] = f[b] => a = b
IsNonDecreasing(f) == \A a, b \in DOMAIN f : a <= b => f[a] <= f[b]
\* the rows search may return for k result slots: min(k, ntotal) distinct
\* stored vectors, nearest first, then padding
SearchRows(idx, kk) ==
  LET h == Min(kk, idx.ntotal)
  IN  {[I |-> [j \in 1..kk |-> IF j <= h THEN labs[j] ELSE NoHit],
        D |-> [j \in 1..kk |-> IF j <= h THEN ds[j] ELSE NoHitDist]] :
         labs \in {f \in [1..h -> 0..(idx.ntotal - 1)] : IsInjective(f)},
         ds \in {g \in [1..h -> 0..MaxDist] : IsNonDecreasing(g)}}
\* searching reads the index and leaves it as it was
IndexAfterSearch(idx) == idx

\* ---- python list operations ----
PyLen(ts) == Len(ts)
\* variant: ts.pop(i) in place of ts[i]
GetItem_Pop(ts, i) ==
  LET n == Len(ts)
      j == IF i < 0 THEN n + i + 1 ELSE i + 1
  IN  IF j >= 1 /\ j <= n
      THEN [ok |-> TRUE, val |-> ts[j],
            rest |-> SubSeq(ts, 1, j - 1) \o SubSeq(ts, j + 1, n)]
      ELSE [ok |-> FALSE, val |-> None, rest |-> ts]
\* ts[i] with Python's negative indexing; IndexError outside -len..len-1
GetItem(ts, i) ==
  IF i >= 0 /\ i < Len(ts) THEN [ok |-> TRUE, val |-> ts[i + 1], rest |-> ts]
  ELSE IF i < 0 /\ i >= 0 - Len(ts)
       THEN [ok |-> TRUE, val |-> ts[Len(ts) + i + 1], rest |-> ts]
       ELSE [ok |-> FALSE, val |-> None, rest |-> ts]

\* the bounds filter of the list comprehension: i < len(token_split_texts)
PassesFilter(i, n) == i < n

RECURSIVE ValidIndices_Dedup(_, _)
\* variant: a position already kept is not kept again
ValidIndices_Dedup(row, n) ==
  IF row = <<>> THEN <<>>
  ELSE LET front == ValidIndices_Dedup(SubSeq(row, 1, Len(row) - 1), n)
           p == row[Len(row)]
       IN  IF PassesFilter(p, n) /\ p \notin Range(front)
           THEN Append(front, p) ELSE front
RECURSIVE ValidIndices(_, _)
\* [i for i in row if i < len(token_split_texts)]
ValidIndices(row, n) ==
  IF row = <<>> THEN <<>>
  ELSE (IF PassesFilter(Head(row), n) THEN <<Head(row)>> ELSE <<>>)
         \o ValidIndices(Tail(row), n)

RECURSIVE Lookup(_, _)
\* [token_split_texts[i] for i in valid_indices]; stops at the first IndexError
Lookup(ts, valid) ==
  IF valid = <<>> THEN [ok |-> TRUE, out |-> <<>>, rest |-> ts]
  ELSE LET g == GetItem(ts, Head(valid))
       IN  IF ~g.ok THEN [ok |-> FALSE, out |-> <<>>, rest |-> g.rest]
           ELSE LET r == Lookup(g.rest, Tail(valid))
                IN  [ok |-> r.ok, out |-> <<g.val>> \o r.out, rest |-> r.rest]

\* variant: the distances are cut to the length of the chunk list
RetrieveReturn_Aligned(rt, ds) == <<rt, <<SubSeq(ds[1], 1, Len(rt))>>>>
\* return retrieved_texts, distances
RetrieveReturn(rt, ds) == <<rt, ds>>

\* ---- answer_query: prompt assembly ----
Separator == <<NL, NL>>
RECURSIVE Join_SingleNewline(_, _)
\* variant: the chunks are joined by one newline
Join_SingleNewline(sep, list) ==
  IF list = <<>> THEN <<>>
  ELSE IF Len(list) = 1 THEN list[1]
  ELSE list[1] \o <<NL>> \o Join_SingleNewline(sep, Tail(list))
RECURSIVE Join(_, _)
\* sep.join(list)
Join(sep, list) ==
  IF list = <<>> THEN <<>>
  ELSE IF Len(list) = 1 THEN list[1]
  ELSE list[1] \o sep \o Join(sep, Tail(list))

TemplateHead == <<"Answer the following question using the provided context. ",
                  "Explain it as if you are explaining it to a 5 year old.\n\n",
                  "Context:\n">>
TemplateMid == <<NL, NL, "Question: ">>
TemplateTail == <<"\nAnswer:">>
BuildPrompt(ctx, q) == TemplateHead \o ctx \o TemplateMid \o q \o TemplateTail

ModelId == "llama-3.3-70b-versatile"
BuildRequest(p) ==
  [model |-> ModelId, messages |-> <<[role |-> "system", content |-> p]>>]

\* the responses the service may send: a list of choices
Responses ==
  {[j \in 1..Len(cs) |-> [message |-> [content |-> cs[j]]]] :
     cs \in SeqsUpTo(Contents, MaxChoices)}
\* variant: the last choice is read
FirstChoiceContent_Last(choices) ==
  LET g == GetItem(choices, 0 - 1)
  IN  IF g.ok THEN [ok |-> TRUE, val |-> g.val.message.content]
      ELSE [ok |-> FALSE, val |-> None]
\* variant: an empty choice list yields the empty string
FirstChoiceContent_Default(choices) ==
  IF Len(choices) = 0 THEN [ok |-> TRUE, val |-> <<>>]
  ELSE [ok |-> TRUE, val |-> choices[1].message.content]
\* llm.choices[0].message.content
FirstChoiceContent(choices) ==
  LET g == GetItem(choices, 0)
  IN  IF g.ok THEN [ok |-> TRUE, val |-> g.val.message.content]
      ELSE [ok |-> FALSE, val |-> None]

\* ---- the state machine ----
Init ==
  /\ token_split_texts \in LoadedTexts
  /\ index \in LoadedIndexes
  /\ pc = "idle" /\ op = None /\ ncalls = 0
  /\ query = None /\ k = 0
  /\ query_embedding = None
  /\ distances = <<>> /\ indices = <<>>
  /\ valid_indices = <<>> /\ retrieved_texts = <<>> /\ ret = None
  /\ context = None /\ prompt = None /\ request = None
  /\ llm = None /\ answer = None /\ fault = None
  /\ trace = <<>>

Globals == <<token_split_texts, index>>
Args == <<op, ncalls, query, k>>
RetrieveLocals == <<query_embedding, distances, indices, valid_indices,
                    retrieved_texts, ret>>
AnswerLocals == <<context, prompt, request, llm, answer>>

\* the caller invokes retrieve_texts or answer_query with a fresh frame
Call(o, q, kk) ==
  /\ pc \in {"idle", "returned", "failed"}
  /\ ncalls < MaxCalls
  /\ pc' = "called" /\ op' = o /\ ncalls' = ncalls + 1
  /\ query' = q /\ k' = kk
  /\ query_embedding' = None
  /\ distances' = <<>> /\ indices' = <<>>
  /\ valid_indices' = <<>> /\ retrieved_texts' = <<>> /\ ret' = None
  /\ context' = None /\ prompt' = None /\ request' = None
  /\ llm' = None /\ answer' = None /\ fault' = None
  /\ trace' = <<>>
  /\ UNCHANGED Globals

\* query_embedding = model.encode([query], convert_to_numpy=True)
Encode ==
  /\ pc = "called"
  /\ pc' = "encoded"
  /\ query_embedding' = <<"embedding", query>>
  /\ trace' = Append(trace, "encode")
  /\ UNCHANGED <<Globals, Args, distances, indices, valid_indices,
                 retrieved_texts, ret, AnswerLocals, fault>>

\* model.encode raises
EncodeFail ==
  /\ pc = "called"
  /\ pc' = "failed" /\ fault' = "EncodeError"
  /\ trace' = Append(trace, "encode")
  /\ UNCHANGED <<Globals, Args, RetrieveLocals, AnswerLocals>>

\* distances, indices = index.search(query_embedding, k)
Search ==
  /\ pc = "encoded"
  /\ \E r \in SearchRows(index, k) :
       /\ indices' = <<r.I>>
       /\ distances' = <<r.D>>
  /\ index' = IndexAfterSearch(index)
  /\ pc' = "searched"
  /\ trace' = Append(trace, "search")
  /\ UNCHANGED <<token_split_texts, Args, query_embedding, valid_indices,
                 retrieved_texts, ret, AnswerLocals, fault>>

\* index.search raises
SearchFail ==
  /\ pc = "encoded"
  /\ pc' = "failed" /\ fault' = "SearchError"
  /\ trace' = Append(trace, "search")
  /\ UNCHANGED <<Globals, Args, RetrieveLocals, AnswerLocals>>

\* the two list comprehensions and the return of retrieve_texts
FilterAndLookup ==
  /\ pc = "searched"
  /\ LET v == ValidIndices(indices[1], PyLen(token_split_texts))
         l == Lookup(token_split_texts, v)
     IN  /\ valid_indices' = v
         /\ token_split_texts' = l.rest
         /\ IF l.ok
            THEN /\ retrieved_texts' = l.out
                 /\ ret' = RetrieveReturn(l.out, distances)
                 /\ pc' = IF op = "retrieve_texts" THEN "returned" ELSE "retrieved"
                 /\ fault' = fault
            ELSE /\ pc' = "failed" /\ fault' = "IndexError"
                 /\ UNCHANGED <<retrieved_texts, ret>>
  /\ trace' = Append(trace, "lookup")
  /\ UNCHANGED <<index, Args, query_embedding, distances, indices, AnswerLocals>>

\* context = "\n\n".join(retrieved_texts); prompt = ...; messages = ...
Assemble ==
  /\ pc = "retrieved"
  /\ context' = Join(Separator, ret[1])
  /\ prompt' = BuildPrompt(context', query)
  /\ request' = BuildRequest(prompt')
  /\ pc' = "assembled"
  /\ trace' = Append(trace, "prompt")
  /\ UNCHANGED <<Globals, Args, RetrieveLocals, llm, answer, fault>>

\* llm = client.chat.completions.create(...)
Create ==
  /\ pc = "assembled"
  /\ llm' \in Responses
  /\ pc' = "replied"
  /\ trace' = Append(trace, "create")
  /\ UNCHANGED <<Globals, Args, RetrieveLocals, context, prompt, request,
                 answer, fault>>

\* variant: a failed remote call is tried again
CreateFail_Retry ==
  /\ pc = "assembled"
  /\ Len(trace) < 7
  /\ pc' = "assembled"
  /\ trace' = Append(trace, "create")
  /\ UNCHANGED <<Globals, Args, RetrieveLocals, AnswerLocals, fault>>
\* client.chat.completions.create raises: nothing catches it
CreateFail ==
  /\ pc = "assembled"
  /\ pc' = "failed" /\ fault' = "APIError"
  /\ trace' = Append(trace, "create")
  /\ UNCHANGED <<Globals, Args, RetrieveLocals, AnswerLocals>>

\* answer = llm.choices[0].message.content; return answer
Return ==
  /\ pc = "replied"
  /\ LET c == FirstChoiceContent(llm)
     IN  IF c.ok
         THEN /\ answer' = c.val /\ pc' = "returned" /\ fault' = fault
         ELSE /\ pc' = "failed" /\ fault' = "IndexError" /\ answer' = answer
  /\ trace' = Append(trace, "return")
  /\ UNCHANGED <<Globals, Args, RetrieveLocals, context, prompt, request, llm>>

Next ==
  \/ \E o \in {"retrieve_texts", "answer_query"}, q \in Queries, kk \in 0..MaxK :
       Call(o, q, kk)
  \/ Encode
  \/ EncodeFail
  \/ Search
  \/ SearchFail
  \/ FilterAndLookup
  \/ Assemble
  \/ Create
  \/ CreateFail
  \/ Return

Spec == Init /\ [][Next]_vars

TypeOK ==
  /\ pc \in {"idle", "called", "encoded", "searched", "retrieved",
             "assembled", "replied", "returned", "failed"}
  /\ ncalls \in 0..MaxCalls
  /\ k \in 0..MaxK

\* ---- vocabulary of the properties ----
\* retrieve_texts has returned in the running call
RetrieveDone == ret # None
Row == indices[1]
DistRow == distances[1]
NChunks == Len(token_split_texts)
InBounds(p) == 0 <= p /\ p < NChunks
\* result slots whose position the code's filter lets through
PassingSlots == {s \in 1..Len(Row) : Row[s] < NChunks}
\* result slots whose position lies inside the chunk collection
InBoundsSlots == {s \in 1..Len(Row) : InBounds(Row[s])}
\* the j-th slot of a set of slots, in the search's order
NthSlot(S, j) == CHOOSE s \in S : Cardinality({t \in S : t < s}) = j - 1
\* the chunk Python's indexing yields for a position that passed the filter
ChunkFor(p) == token_split_texts[IF p < 0 THEN NChunks + p + 1 ELSE p + 1]
Count(s, e) == Cardinality({i \in DOMAIN s : s[i] = e})
Last(s) == s[Len(s)]
Stepped(e) == e \in Range(trace)

\* ---- retrieve_texts ----

\* C1 (as stated): retrieve_texts returns at most k chunks, each of them the
\* chunk stored at a position the search returned that lies in
\* 0..len(token_split_texts)-1, and nothing for k = 0.
C1_AtMostKInBounds ==
  RetrieveDone =>
    /\ Len(ret[1]) <= k
    /\ \A j \in 1..Len(ret[1]) :
         \E s \in InBoundsSlots : ret[1][j] = token_split_texts[Row[s] + 1]
    /\ (k = 0 => ret[1] = <<>>)

\* C2 (as stated): every position outside 0..len-1, the padding position -1
\* included, contributes no chunk and raises no error, and every in-bounds
\* position contributes its chunk.
C2_OutOfBoundsSkipped ==
  Stepped("lookup") =>
    /\ ~(pc = "failed" /\ Last(trace) = "lookup")
    /\ RetrieveDone =>
         ret[1] = [j \in 1..Cardinality(InBoundsSlots) |->
                     token_split_texts[Row[NthSlot(InBoundsSlots, j)] + 1]]

C4_FewerThanK ==
  (RetrieveDone /\ k > index.ntotal) =>
    /\ Len(ret[1]) < k
    /\ Len(ret[1]) = Cardinality({s \in InBoundsSlots : Row[s] # NoHit})

\* C10 (as stated): the returned distances row is as long as the returned
\* chunk list and its i-th entry is the distance of the i-th returned chunk.
C10_DistancesAligned ==
  RetrieveDone =>
    /\ Len(ret[2][1]) = Len(ret[1])
    /\ \A j \in 1..Len(ret[1]) : ret[2][1][j] = DistRow[NthSlot(PassingSlots, j)]

\* C10 (amended): the returned distances are the search's 1 x k array as the
\* search reported it, so the row is at least as long as the chunk list, as
\* long exactly when no slot was filtered, and aligned with the chunks up to
\* the first filtered slot.
C10_DistancesUnfiltered ==
  RetrieveDone =>
    /\ ret[2] = distances
    /\ Len(ret[2]) = 1 /\ Len(ret[2][1]) = k
    /\ Len(ret[1]) <= Len(ret[2][1])
    /\ (Len(ret[1]) = Len(ret[2][1]) <=> PassingSlots = 1..k)
    /\ \A j \in 1..Len(ret[1]) :
         (1..j \subseteq PassingSlots) => ret[1][j] = ChunkFor(Row[j])

\* a slot was filtered, so the row is longer than the chunk list
C10_Witness ==
  /\ RetrieveDone /\ op = "retrieve_texts" /\ pc = "returned"
  /\ Len(ret[1]) >= 1
  /\ Len(ret[1]) < Len(ret[2][1])

\* ---- answer_query ----
RECURSIVE Offset(_, _)
\* where the i-th chunk starts in the joined context (0-based)
Offset(ts, i) == IF i = 1 THEN 0 ELSE Offset(ts, i - 1) + Len(ts[i - 1]) + 2
PromptBuilt == context # None

\* C5: the context is the retrieved chunks in retrieval order with a blank
\* line between neighbours, empty for no chunk; the prompt is the template
\* around that context and the unmodified query; and it is sent as the one
\* system message of the request, also when the context is empty.
C5_ContextAndPrompt ==
  PromptBuilt =>
    LET ts == ret[1]
        n == Len(ts)
        hl == Len(TemplateHead)
        cl == Len(context)
        ql == Len(query)
    IN  /\ n = 0 => context = <<>>
        /\ n > 0 => cl = Offset(ts, n) + Len(ts[n])
        /\ \A i \in 1..n :
             SubSeq(context, Offset(ts, i) + 1, Offset(ts, i) + Len(ts[i])) = ts[i]
        /\ \A i \in 1..(n - 1) :
             LET e == Offset(ts, i) + Len(ts[i])
             IN  context[e + 1] = "\n" /\ context[e + 2] = "\n"
        /\ Len(prompt) = hl + cl + 3 + ql + 1
        /\ SubSeq(prompt, 1, hl) = TemplateHead
        /\ SubSeq(prompt, hl + 1, hl + cl) = context
        /\ SubSeq(prompt, hl + cl + 1, hl + cl + 3) = <<"\n", "\n", "Question: ">>
        /\ SubSeq(prompt, hl + cl + 4, hl + cl + 3 + ql) = query
        /\ prompt[Len(prompt)] = "\nAnswer:"
        /\ request.model = "llama-3.3-70b-versatile"
        /\ request.messages = <<[role |-> "system", content |-> prompt]>>
        /\ (pc = "assembled" => ENABLED Create)

\* three chunks were joined and the request was sent
C5_Witness ==
  /\ PromptBuilt /\ Stepped("create")
  /\ Len(ret[1]) = 3

\* C6: once answer_query has read a response with at least one choice, it
\* has returned the content of the first choice, whatever the others hold.
C6_FirstChoiceReturned ==
  /\ (Stepped("return") /\ Len(llm) >= 1) =>
       /\ pc = "returned" /\ fault = None
       /\ answer = llm[1].message.content
  /\ ~Stepped("return") => answer = None

\* two choices with different contents, the first one returned
C6_Witness ==
  /\ pc = "returned" /\ op = "answer_query"
  /\ Len(llm) = 2
  /\ llm[1].message.content # llm[2].message.content

C8_NoChoiceFails ==
  /\ (Stepped("return") /\ Len(llm) = 0) =>
       /\ pc = "failed" /\ fault = "IndexError"
       /\ answer = None
  /\ (pc = "returned" /\ op = "answer_query") => (Len(llm) >= 1 /\ answer # None)

\* the response had no choice and the call has failed
C8_Witness ==
  pc = "failed" /\ Stepped("return") /\ llm = <<>>

\* ---- both functions ----
\* what a finished call yields, from its arguments and the services' replies
ExpectedChunks ==
  [j \in 1..Cardinality(PassingSlots) |-> ChunkFor(Row[NthSlot(PassingSlots, j)])]
Finished ==
  /\ pc = "returned"
  /\ ret = <<ExpectedChunks, distances>>
  /\ op = "answer_query" =>
       /\ request.messages[1].content =
            BuildPrompt(Join(Separator, ExpectedChunks), query)
       /\ answer = llm[1].message.content

\* C9: no step of any call changes the chunk collection or the index, and a
\* call that returns yields what its own arguments and the services' replies
\* determine.
C9_ReadOnlyAndStateless ==
  [][/\ token_split_texts' = token_split_texts
     /\ index' = index
     /\ (pc' = "returned" => Finished')]_vars

\* a second call has returned chunks
C9_Witness ==
  ncalls >= 2 /\ pc = "returned" /\ Len(ret[1]) >= 2
====
